---------------------------- MODULE Spec2Model ----------------------------
(***************************************************************************)
(* A model of BinaryMagic (src/src/main.rs): one run of the command-line   *)
(* tool, from its argument vector and its input file to its exit code.     *)
(*                                                                         *)
(* The input file never changes during a run and every field of it is read *)
(* at one place of the run, so the model draws each field where the run    *)
(* reads it: the kind of the file in Init, the section headers one per     *)
(* iteration of the section loop, e_shnum where the count is printed, the  *)
(* library list where parse_dynamic_libs starts, e_type in the summary.    *)
(*                                                                         *)
(* Numbers wider than TLC's integers are kept exactly: a 64-bit flag word  *)
(* is the set of its set bit positions (0..63), a 64-bit size is its four  *)
(* 16-bit limbs, least significant first.                                  *)
(***************************************************************************)
EXTENDS Integers, Sequences, FiniteSets, TLC

VARIABLES
    args,               \* env::args().skip(1): the words after the program name
    file,               \* the input file, as the run will find it
    argv,               \* the Arguments parse_args built
    pc,                 \* the position of the run
    out,                \* what the run printed so far, in order
    exit_code,          \* the exit code, once pc = "done"
    start_enum,         \* the ProgramArgumentMethod chosen, "none" without one
    is_caller_singular, \* the flag handed to the report in progress
    section_hdr_table,  \* parse_header_sections' table, while it runs
    header,             \* the fields of elf_obj.header the run has read
    printed,            \* the values the run printed, by report line
    libraries,          \* elf.libraries, once parse_dynamic_libs reads it
    lib_i,              \* how many entries of libraries the loop has handled
    dyn_libs            \* parse_dynamic_libs' map, while it is in use

vars == <<args, file, argv, pc, out, exit_code, start_enum, is_caller_singular,
          section_hdr_table, header, printed, libraries, lib_i, dyn_libs>>

-----------------------------------------------------------------------------
(* Bounds of the model *)

MaxSections == 2
MaxLibs == 3
MaxShnum == 2
MaxEType == 6
MaxHalfKb == 4

-----------------------------------------------------------------------------
(* Program constants *)

PARAM_DATA_LIMIT == 1
SINGULAR_CALLER == TRUE
MULTI_CALLER == ~SINGULAR_CALLER

\* std::process::exit(-1)
ExitFailure == -1
\* the exit code of a Rust process whose main thread panicked
PanicExitCode == 101
\* the number of values of a u16
U16Range == 2^16

params == <<"--sections", "--dyn-syms", "--dyn-libs", "NULL">>


-----------------------------------------------------------------------------
(* Section-header flag words: the set of the bit positions that are set *)

\* goblin::elf64::section_header, imported whole by main.rs
SHF_WRITE == {0}
SHF_ALLOC == {1}
SHF_EXECINSTR == {2}
SHF_MERGE == {4}
SHF_STRINGS == {5}
SHF_INFO_LINK == {6}
SHF_LINK_ORDER == {7}
SHF_OS_NONCONFORMING == {8}
SHF_GROUP == {9}
SHF_TLS == {10}
SHF_MASKOS == 20..27
SHF_MASKPROC == 28..31

\* a | b on flag words
BitOr(a, b) == a \cup b

SHF_WRITE_ALLOC == BitOr(SHF_WRITE, SHF_ALLOC)
SHF_ASM_INST_ALLOC == BitOr(SHF_ALLOC, SHF_EXECINSTR)
SHF_UNDEFINED == {}
SHF_UNDEFINED_STR == "SHF_UNDEFINED"

\* x as u32, of a u64 flag word: the low 32 bits
AsU32(x) == x \cap (0..31)

\* the flag classification as it would be with single bits tested first
FlagLabelBitTest(sh_flags) ==
    LET f == AsU32(sh_flags) IN
    CASE f = SHF_UNDEFINED -> SHF_UNDEFINED_STR
      [] SHF_WRITE \subseteq f -> "SHF_WRITE"
      [] SHF_ALLOC \subseteq f -> "SHF_ALLOC"
      [] f = SHF_WRITE_ALLOC -> "SHF_WRITE & SHF_ALLOC"
      [] f = SHF_ASM_INST_ALLOC -> "SHF_ASM_OPCODE"
      [] SHF_EXECINSTR \subseteq f -> "SHF_EXECINSTR"
      [] OTHER -> SHF_UNDEFINED_STR

\* the match on elf_section_hdr.sh_flags as u32 that fills the Flags cell
FlagLabel(sh_flags) ==
    LET f == AsU32(sh_flags) IN
    CASE f = SHF_UNDEFINED -> SHF_UNDEFINED_STR
      [] f = SHF_WRITE -> "SHF_WRITE"
      [] f = SHF_ALLOC -> "SHF_ALLOC"
      [] f = SHF_WRITE_ALLOC -> "SHF_WRITE & SHF_ALLOC"
      [] f = SHF_ASM_INST_ALLOC -> "SHF_ASM_OPCODE"
      [] f = SHF_EXECINSTR -> "SHF_EXECINSTR"
      [] f = SHF_MERGE -> "SHF_MERGE"
      [] f = SHF_STRINGS -> "SHF_STRINGS"
      [] f = SHF_INFO_LINK -> "SHF_INFO_LINK"
      [] f = SHF_LINK_ORDER -> "SHF_LINK_ORDER"
      [] f = SHF_OS_NONCONFORMING -> "SHF_OS_NON_CONFORMING"
      [] f = SHF_GROUP -> "SHF_GROUP"
      [] f = SHF_TLS -> "SHF_TLS"
      [] f = SHF_MASKOS -> "SHF_MASKOS"
      [] f = SHF_MASKPROC -> "SHF_MASKPROC"
      [] OTHER -> SHF_UNDEFINED_STR

\* the match on elf_section_hdr.sh_type as u32 and ElfSectionType::get_type
SectionTypeLabel(sh_type) ==
    CASE sh_type = 0 -> "SHT_NULL"
      [] sh_type = 1 -> "SHT_PROGBITS"
      [] sh_type = 2 -> "SHT_SYMTAB"
      [] sh_type = 3 -> "SHT_STRTAB"
      [] sh_type = 4 -> "SHT_RELA"
      [] sh_type = 5 -> "SHT_HASH"
      [] sh_type = 6 -> "SHT_DYNAMIC"
      [] sh_type = 7 -> "SHT_NOTE"
      [] sh_type = 8 -> "SHT_NOBITS"
      [] sh_type = 9 -> "SHT_REL"
      [] sh_type = 10 -> "SHT_SHLIB"
      [] sh_type = 11 -> "SHT_DYNSYM"
      [] sh_type = 14 -> "SHT_INIT_ARRAY"
      [] sh_type = 15 -> "SHT_FINI_ARRAY"
      [] sh_type = 16 -> "SHT_PREINIT_ARRAY"
      [] sh_type = 17 -> "SHT_GROUP"
      [] sh_type = 18 -> "SHT_SYMTAB_SHNDX"
      [] OTHER -> "SHT_NULL"

-----------------------------------------------------------------------------
(* 64-bit sizes: four 16-bit limbs, least significant first *)

Limb == 2^16

\* the u64 of a number TLC can hold
U64Of(n) == <<n % Limb, (n \div Limb) % Limb, 0, 0>>

\* sh_size >= 1024 as u64
Ge1024(s) == s[4] > 0 \/ s[3] > 0 \/ s[2] > 0 \/ s[1] >= 1024

\* sh_size / 1024 on u64: a shift right by ten bits
Div1024(s) ==
    << (s[1] \div 1024) + (s[2] % 1024) * 64,
       (s[2] \div 1024) + (s[3] % 1024) * 64,
       (s[3] \div 1024) + (s[4] % 1024) * 64,
       s[4] \div 1024 >>

\* q + 1 on limbs, for q below 2^64 - 1
Succ64(q) ==
    IF q[1] + 1 < Limb THEN <<q[1] + 1, q[2], q[3], q[4]>>
    ELSE IF q[2] + 1 < Limb THEN <<0, q[2] + 1, q[3], q[4]>>
    ELSE IF q[3] + 1 < Limb THEN <<0, 0, q[3] + 1, q[4]>>
    ELSE <<0, 0, 0, q[4] + 1>>

\* (q as f64), for a quotient q of a u64 by 1024 (q < 2^54): an f64 holds 53
\* significant bits, so q below 2^53 is exact and above it q is rounded to a
\* multiple of two, a tie going to the even significand. The result is the
\* integer the f64 holds, which is what {} prints.
AsF64(q) ==
    IF q[4] < 32 THEN q
    ELSE CASE q[1] % 4 = 1 -> <<q[1] - 1, q[2], q[3], q[4]>>
           [] q[1] % 4 = 3 -> Succ64(q)
           [] OTHER -> q

\* the Size cell: format!("{} Kb ({:.2} bytes)", (sh_size / 1024) as f64, sh_size)
\* or format!("{} bytes", sh_size)
SectionSize(sh_size) ==
    IF Ge1024(sh_size)
    THEN [form |-> "Kb", kb |-> AsF64(Div1024(sh_size)), bytes |-> sh_size]
    ELSE [form |-> "bytes", kb |-> <<>>, bytes |-> sh_size]

-----------------------------------------------------------------------------
(* The file header *)

\* ElfObjectType::get_type
ElfObjectType_get_type(variant) ==
    CASE variant = "EtNone" -> "ET_NONE (No file type)"
      [] variant = "EtRel" -> "ET_REL (Relocatable file)"
      [] variant = "EtExec" -> "ET_EXEC (Executable file)"
      [] variant = "EtDyn" -> "ET_DYN (Shared object file)"
      [] variant = "EtCore" -> "ET_CORE (Core file)"

\* return_elf_etype
return_elf_etype(hdr_etype) ==
    ElfObjectType_get_type(
        CASE hdr_etype = 0 -> "EtNone"
          [] hdr_etype = 1 -> "EtRel"
          [] hdr_etype = 2 -> "EtExec"
          [] hdr_etype = 3 -> "EtDyn"
          [] hdr_etype = 4 -> "EtCore"
          [] OTHER -> "EtNone")

\* goblin::elf::header, imported whole by main.rs
EM_NONE == 0
EM_MIPS == 8
EM_PPC == 20
EM_PPC64 == 21
EM_X86_64 == 62

\* the machine classification as it would be with the 64-bit PowerPC code left out
return_elf_emachine_ppc32_only(emachine_id) ==
    CASE emachine_id = EM_NONE -> "No machine"
      [] emachine_id = EM_MIPS -> "MIPS I Architecture"
      [] emachine_id = EM_PPC -> "PowerPC 32/64 bit"
      [] emachine_id = EM_X86_64 -> "Intel/AMD 64-bit"
      [] OTHER -> "Unknown"

\* return_elf_emachine
return_elf_emachine(emachine_id) ==
    CASE emachine_id = EM_NONE -> "No machine"
      [] emachine_id = EM_MIPS -> "MIPS I Architecture"
      [] emachine_id = EM_PPC \/ emachine_id = EM_PPC64 -> "PowerPC 32/64 bit"
      [] emachine_id = EM_X86_64 -> "Intel/AMD 64-bit"
      [] OTHER -> "Unknown"

-----------------------------------------------------------------------------
(* The identification bytes: return_hdr_magic *)

ELF_MAGIC_LEN == 4

HexDigits ==
    <<"0", "1", "2", "3", "4", "5", "6", "7", "8", "9", "a", "b", "c", "d", "e", "f">>

\* format!("{:02x?}", byte) for a u8
Hex02(byte) == HexDigits[(byte \div 16) + 1] \o HexDigits[(byte % 16) + 1]

\* the while loop over i < ELF_MAGIC_LEN: the arms 0..3 push elf_mag0..elf_mag3
RECURSIVE PackMagic(_, _, _)
PackMagic(magic, magic_vector, i) ==
    IF i < ELF_MAGIC_LEN
    THEN PackMagic(magic,
                   IF i \in 0..3 THEN Append(magic_vector, Hex02(magic[i + 1]))
                                 ELSE magic_vector,
                   i + 1)
    ELSE magic_vector

\* the for loop as it would be over magic.into_iter().enumerate(), the skip left out
RECURSIVE PackRest_no_skip(_, _, _)
PackRest_no_skip(magic, magic_vector, i) ==
    IF i >= Len(magic)
    THEN magic_vector
    ELSE LET pushed == Append(magic_vector, Hex02(magic[i + 1])) IN
         IF i + 1 = Len(magic) THEN pushed ELSE PackRest_no_skip(magic, pushed, i + 1)

\* the for loop over magic.into_iter().skip(ELF_MAGIC_LEN).enumerate(): i is the
\* index enumerate gives; the loop breaks when i + 1 == magic.len()
RECURSIVE PackRest(_, _, _)
PackRest(magic, magic_vector, i) ==
    IF ELF_MAGIC_LEN + i >= Len(magic)
    THEN magic_vector
    ELSE LET pushed == Append(magic_vector, Hex02(magic[ELF_MAGIC_LEN + i + 1])) IN
         IF i + 1 = Len(magic) THEN pushed ELSE PackRest(magic, pushed, i + 1)

\* magic_vector.join(" ")
RECURSIVE Join(_)
Join(v) ==
    IF Len(v) = 0 THEN ""
    ELSE IF Len(v) = 1 THEN v[1]
    ELSE v[1] \o " " \o Join(Tail(v))

\* return_hdr_magic: exits with -1 when the vector is shorter than the array,
\* else returns (the joined vector, class, data, version)
return_hdr_magic(magic) ==
    LET magic_vector == PackRest(magic, PackMagic(magic, <<>>, 0), 0) IN
    IF Len(magic_vector) < Len(magic)
    THEN [exits |-> TRUE, magic_vector |-> magic_vector]
    ELSE [exits |-> FALSE, magic_vector |-> magic_vector,
          elf_magic |-> Join(magic_vector),
          elf_class |-> magic[5], elf_data |-> magic[6], elf_version |-> magic[7]]

\* main: the CLASS label of the summary
ClassLabel(elf_class) ==
    CASE elf_class = 0 -> "0 (NONE)"
      [] elf_class = 1 -> "1 (32 BIT)"
      [] elf_class = 2 -> "2 (64 BIT)"
      [] OTHER -> "UNKNOWN"

\* main: the DATA label of the summary
DataLabel(elf_data) ==
    CASE elf_data = 0 -> "0 (Invalid data encoding)"
      [] elf_data = 1 -> "1 (LE with 2's complement)"
      [] elf_data = 2 -> "2 (BE with 2's compliment)"
      [] OTHER -> "UNKNOWN"

-----------------------------------------------------------------------------
(* The library map: a HashMap<String, ()> is a function from its keys *)

Unit == "()"

\* HashMap::new
HashMapNew == <<>>

\* an insert that starts from an empty map every time
HashMapInsertFresh(m, k) == [x \in {k} |-> Unit]

\* HashMap::insert(k, ())
HashMapInsert(m, k) == [x \in (DOMAIN m) \cup {k} |-> Unit]

\* HashMap::len
HashMapLen(m) == Cardinality(DOMAIN m)

-----------------------------------------------------------------------------
(* The inputs of a run *)

\* The second word of the command line, when there is one
SecondArgs == {"--sections", "--dyn-syms", "--dyn-libs", "NULL", "", "--bogus"}

ArgInputs ==
    {<<>>, <<"a.out">>} \cup {<<"a.out", a>> : a \in SecondArgs}

\* A file: whether fs::read can read it, whether it holds the 16 bytes
\* Object::parse peeks at, the format its first bytes announce ("Elf" exactly
\* when bytes 0..4 are the ELF signature), the class and data-encoding bytes of
\* an ELF identification, and whether the rest of it parses.
ElfFile(class, data, intact) ==
    [readable |-> TRUE, long |-> TRUE, hint |-> "Elf",
     ei_class |-> class, ei_data |-> data, intact |-> intact]

OtherFile(readable, long, hint, intact) ==
    [readable |-> readable, long |-> long, hint |-> hint,
     ei_class |-> 0, ei_data |-> 0, intact |-> intact]

FileInputs ==
    {OtherFile(FALSE, TRUE, "Unknown", TRUE)}
    \cup {OtherFile(TRUE, FALSE, h, TRUE) : h \in {"Elf", "Unknown"}}
    \cup {OtherFile(TRUE, TRUE, h, i) : h \in {"PE", "Mach", "Archive"}, i \in BOOLEAN}
    \cup {OtherFile(TRUE, TRUE, "Unknown", TRUE)}
    \cup {ElfFile(2, 1, i) : i \in BOOLEAN}
    \cup {ElfFile(1, 2, i) : i \in BOOLEAN}
    \cup {ElfFile(2, 0, TRUE), ElfFile(2, 3, TRUE), ElfFile(0, 1, TRUE),
          ElfFile(3, 1, TRUE)}

\* sh_flags: every recognized value, zero, and words that are none of them,
\* with and without bits above the low 32
FlagInputs ==
    {SHF_UNDEFINED, SHF_WRITE, SHF_ALLOC, SHF_WRITE_ALLOC, SHF_ASM_INST_ALLOC,
     SHF_EXECINSTR, SHF_MERGE, SHF_STRINGS, SHF_INFO_LINK, SHF_LINK_ORDER,
     SHF_OS_NONCONFORMING, SHF_GROUP, SHF_TLS, SHF_MASKOS, SHF_MASKPROC}
    \cup {{0, 2}, {0, 1, 2}, {11}, {21}}
    \cup {{32}, {0, 32}, {0, 1, 63}}

\* sh_size: around the 1024 threshold, and where a u64 exceeds what an f64 holds
SizeInputs ==
    {U64Of(k * 512 + d) : k \in 0..MaxHalfKb, d \in {0, 511}}
    \cup {<<a, 0, 0, b>> : a \in {0, 1024}, b \in {2^15, 2^16 - 1}}
    \cup {<<2^16 - 1, 2^16 - 1, 2^16 - 1, 2^16 - 1>>}

SectionHeader(flags, type, size, entsize) ==
    [sh_flags |-> flags, sh_type |-> type, sh_size |-> size, sh_entsize |-> entsize]

\* One entry of elf_obj.section_headers
SectionHeaderInputs ==
    {SectionHeader(f, 1, U64Of(0), 0) : f \in FlagInputs}
    \cup {SectionHeader(SHF_ALLOC, 8, s, 0) : s \in SizeInputs}
    \cup {SectionHeader(SHF_UNDEFINED, t, U64Of(0), 24) : t \in {0, 18, 19}}

\* An ELF32 section header holds sh_flags and sh_size in 32 bits, an ELF64 one
\* in 64
FitsClass(sh, ei_class) ==
    \/ ei_class = 2
    \/ /\ sh.sh_flags \subseteq 0..31
       /\ sh.sh_size[3] = 0
       /\ sh.sh_size[4] = 0

\* The raw e_shnum of a file with n section headers: goblin reads e_shnum
\* headers at e_shoff, none at all when e_shoff is zero (whatever e_shnum
\* says), and, for e_shnum zero with a table, as many as the first header's
\* sh_size says.
ShnumInputs(table) ==
    IF Len(table) = 0
    THEN (0..MaxShnum) \cup {12, U16Range - 1}
    ELSE {Len(table)} \cup
         (IF table[1].sh_size = U64Of(Len(table)) THEN {0} ELSE {})

\* elf_obj.header.e_ident of a parsed file: the signature, the class and data
\* bytes of the file, a version byte, an OS ABI byte, and padding
IdentInputs(f) ==
    {<<127, 69, 76, 70, f.ei_class, f.ei_data, version, osabi, 0, 0, 0, 0, 0, 0, 0, 0>> :
        version \in {0, 1}, osabi \in {0, 255}}

ETypeInputs == (0..MaxEType) \cup {U16Range - 1}

\* e_machine: the recognized codes, their neighbours, other real machines and
\* the largest u16
EMachineInputs ==
    {EM_NONE, EM_MIPS, EM_PPC, EM_PPC64, EM_X86_64}
    \cup {1, 3, 7, 9, 19, 22, 40, 61, 63, 183, 243, U16Range - 1}

\* The (e_type, e_machine) of a header: every e_type of an x86-64 file, every
\* e_machine of an executable
TypeMachineInputs ==
    {<<t, EM_X86_64>> : t \in ETypeInputs} \cup {<<2, m>> : m \in EMachineInputs}

LibNames == {"libc.so.6", "libm.so.6"}

\* elf.libraries: the DT_NEEDED names in file order, repeats included
LibraryInputs == UNION {[1..n -> LibNames] : n \in 0..MaxLibs}

-----------------------------------------------------------------------------
(* goblin's Object::parse, by its result: Err for a buffer too small to tell, *)
(* for a malformed object and for an ELF identification whose class or data  *)
(* encoding is not a valid one; Unknown for unrecognized first bytes.        *)

\* the parse as it would be if the data-encoding byte were left to the caller
ObjectParse_data_unchecked(f) ==
    IF ~f.long THEN "Err"
    ELSE CASE f.hint = "Elf" ->
                IF f.ei_class \in {1, 2} /\ f.intact THEN "Elf" ELSE "Err"
           [] f.hint = "Unknown" -> "Unknown"
           [] OTHER -> IF f.intact THEN f.hint ELSE "Err"

ObjectParse(f) ==
    IF ~f.long THEN "Err"
    ELSE CASE f.hint = "Elf" ->
                IF f.ei_class \in {1, 2} /\ f.ei_data \in {1, 2} /\ f.intact
                THEN "Elf" ELSE "Err"
           [] f.hint = "Unknown" -> "Unknown"
           [] OTHER -> IF f.intact THEN f.hint ELSE "Err"

\* elf_obj.header.endianness(): whether it is Ok
EndiannessOk(f) == f.ei_data \in {1, 2}

-----------------------------------------------------------------------------
(* The run *)

Init ==
    /\ args \in ArgInputs
    /\ file \in FileInputs
    /\ argv = [file |-> "", optional_param |-> ""]
    /\ pc = "parse_args"
    /\ out = <<>>
    /\ exit_code = 0
    /\ start_enum = "none"
    /\ is_caller_singular = MULTI_CALLER
    /\ section_hdr_table = <<>>
    /\ header = <<>>
    /\ printed = <<>>
    /\ libraries = <<>>
    /\ lib_i = 0
    /\ dyn_libs = HashMapNew

\* std::process::exit(code), or main returning Ok(()) for code 0
Exit(code) ==
    /\ pc' = "done"
    /\ exit_code' = code

\* a panic of the main thread, from expect or from an overflow check
Panic(msg) ==
    /\ out' = Append(out, msg)
    /\ Exit(PanicExitCode)

\* parse_args, with send_help when no word was given
parse_args ==
    /\ pc = "parse_args"
    /\ IF Len(args) < 1
       THEN /\ out' = Append(out, "BINARYMAGIC - v1.1 (ALPHA)")
            /\ Exit(0)
            /\ UNCHANGED argv
       ELSE /\ argv' = [file |-> args[1],
                        optional_param |-> IF Len(args) >= 2 THEN args[2] ELSE "NULL"]
            /\ pc' = "read"
            /\ UNCHANGED <<out, exit_code>>
    /\ UNCHANGED <<args, file, start_enum, is_caller_singular, section_hdr_table,
                   header, printed, libraries, lib_i, dyn_libs>>

\* main: fs::read(path).expect("Failed to read file data!")
read_file ==
    /\ pc = "read"
    /\ IF file.readable
       THEN pc' = "select" /\ UNCHANGED <<out, exit_code>>
       ELSE Panic("Failed to read file data!")
    /\ UNCHANGED <<args, file, argv, start_enum, is_caller_singular,
                   section_hdr_table, header, printed, libraries, lib_i, dyn_libs>>

\* params.iter().find(|x| &argv.optional_param == **x): the first match
FindParam(p) ==
    IF \E i \in 1..Len(params) : params[i] = p
    THEN <<params[CHOOSE i \in 1..Len(params) :
                    params[i] = p /\ \A j \in 1..(i - 1) : params[j] # p]>>
    ELSE <<>>

\* main: the dispatch on the optional parameter
select_mode ==
    /\ pc = "select"
    /\ IF Len(argv.optional_param) >= PARAM_DATA_LIMIT
       THEN LET found == FindParam(argv.optional_param) IN
            IF found # <<>>
            THEN /\ pc' = IF found[1] \in {"--sections", "--dyn-syms", "--dyn-libs"}
                          THEN "initialize_primary_object"
                          ELSE "object_parse"
                 /\ UNCHANGED <<out, exit_code>>
            ELSE /\ out' = Append(out, "Error - unknown option")
                 /\ Exit(ExitFailure)
       ELSE pc' = "object_parse" /\ UNCHANGED <<out, exit_code>>
    /\ UNCHANGED <<args, file, argv, start_enum, is_caller_singular,
                   section_hdr_table, header, printed, libraries, lib_i, dyn_libs>>

\* Arguments::initialize_primary_object, with
\* ProgramArgumentMethod::start_method_selector's choice of the report
initialize_primary_object ==
    /\ pc = "initialize_primary_object"
    /\ IF ObjectParse(file) = "Elf"
       THEN LET method == CASE argv.optional_param = "--sections" -> "Sections"
                            [] argv.optional_param = "--dyn-syms" -> "DynamicSymbols"
                            [] argv.optional_param = "--dyn-libs" -> "DynamicLibraries"
                            [] OTHER -> "Sections"
            IN /\ start_enum' = method
               /\ pc' = CASE method = "Sections" -> "parse_header_sections"
                          [] method = "DynamicSymbols" -> "parse_dynamic_syms"
                          [] method = "DynamicLibraries" -> "parse_dynamic_libs"
               /\ is_caller_singular' = SINGULAR_CALLER
               /\ UNCHANGED <<out, exit_code>>
       ELSE /\ out' = Append(out, "Object file is not supported at the moment!")
            /\ Exit(ExitFailure)
            /\ UNCHANGED <<start_enum, is_caller_singular>>
    /\ UNCHANGED <<args, file, argv, section_hdr_table, header, printed,
                   libraries, lib_i, dyn_libs>>

\* main: match Object::parse(&binary_fluff).expect(...), up to the first call
\* of the Elf arm; the other arms print and main returns Ok(())
object_parse ==
    /\ pc = "object_parse"
    /\ LET obj == ObjectParse(file) IN
       CASE obj = "Err" ->
                Panic("Failed to parse binary object file!")
                /\ UNCHANGED is_caller_singular
         [] obj = "Elf" ->
                /\ pc' = "parse_header_sections"
                /\ is_caller_singular' = MULTI_CALLER
                /\ UNCHANGED <<out, exit_code>>
         [] obj = "PE" ->
                out' = Append(out, "pe:") /\ Exit(0) /\ UNCHANGED is_caller_singular
         [] obj = "Mach" ->
                out' = Append(out, "mach:") /\ Exit(0) /\ UNCHANGED is_caller_singular
         [] obj = "Unknown" ->
                /\ out' = Append(out, "Invalid executable: could not parse file header")
                /\ Exit(0)
                /\ UNCHANGED is_caller_singular
         [] OTHER ->
                Exit(0) /\ UNCHANGED <<out, is_caller_singular>>
    /\ UNCHANGED <<args, file, argv, start_enum, section_hdr_table, header,
                   printed, libraries, lib_i, dyn_libs>>

\* one row of the section table, from one section header; the cells kept are
\* Flags, Header Type, Size, Ent size and Has Table?, beside the header's fields
SectionRow(sh) ==
    [sh_flags |-> sh.sh_flags,
     sh_size |-> sh.sh_size,
     flags |-> FlagLabel(sh.sh_flags),
     type |-> SectionTypeLabel(sh.sh_type),
     size |-> SectionSize(sh.sh_size),
     has_table |-> sh.sh_entsize > 0]

\* Arguments::parse_header_sections: the heading and the empty table
parse_header_sections ==
    /\ pc = "parse_header_sections"
    /\ out' = Append(out, "Section Headers =>")
    /\ section_hdr_table' = <<>>
    /\ pc' = "section_loop"
    /\ UNCHANGED <<args, file, argv, exit_code, start_enum, is_caller_singular,
                   header, printed, libraries, lib_i, dyn_libs>>

\* Arguments::parse_header_sections: one iteration of the loop over
\* elf_obj.section_headers
section_row ==
    /\ pc = "section_loop"
    /\ Len(section_hdr_table) < MaxSections
    /\ \E sh \in SectionHeaderInputs :
          /\ FitsClass(sh, file.ei_class)
          /\ section_hdr_table' = Append(section_hdr_table, SectionRow(sh))
    /\ UNCHANGED <<args, file, argv, pc, out, exit_code, start_enum,
                   is_caller_singular, header, printed, libraries, lib_i, dyn_libs>>

\* Arguments::parse_header_sections after the loop: the table, the count
\* e_shnum - 1 as u16, and the exit of a singular caller. The subtraction
\* overflows for e_shnum 0: a build with overflow checks panics there, a build
\* without them wraps.
section_end ==
    /\ pc = "section_loop"
    /\ \E e_shnum \in ShnumInputs(section_hdr_table), overflow_checks \in BOOLEAN :
          /\ header' = header @@ ("e_shnum" :> e_shnum)
          /\ IF e_shnum - 1 < 0 /\ overflow_checks
             THEN /\ out' = out \o <<"section table", "attempt to subtract with overflow">>
                  /\ Exit(PanicExitCode)
                  /\ UNCHANGED printed
             ELSE /\ out' = out \o <<"section table", "section headers detected.">>
                  /\ printed' = printed @@ ("section_count" :> (e_shnum - 1) % U16Range)
                  /\ IF is_caller_singular = SINGULAR_CALLER
                     THEN Exit(0)
                     ELSE pc' = "parse_dynamic_syms" /\ UNCHANGED exit_code
    /\ section_hdr_table' = <<>>
    /\ UNCHANGED <<args, file, argv, start_enum, is_caller_singular, libraries,
                   lib_i, dyn_libs>>

\* Arguments::parse_dynamic_syms up to its call of parse_dynamic_libs: the
\* symbol names in table order and their count
parse_dynamic_syms ==
    /\ pc = "parse_dynamic_syms"
    /\ out' = out \o <<"dynamic symbols", "[DYNSYMS] dynamic symbols found.">>
    /\ pc' = "parse_dynamic_libs"
    /\ UNCHANGED <<args, file, argv, exit_code, start_enum, is_caller_singular,
                   section_hdr_table, header, printed, libraries, lib_i, dyn_libs>>

\* Arguments::parse_dynamic_libs: the empty map
parse_dynamic_libs ==
    /\ pc = "parse_dynamic_libs"
    /\ libraries' \in LibraryInputs
    /\ dyn_libs' = HashMapNew
    /\ lib_i' = 0
    /\ pc' = "libs_loop"
    /\ UNCHANGED <<args, file, argv, out, exit_code, start_enum, is_caller_singular,
                   section_hdr_table, header, printed>>

\* Arguments::parse_dynamic_libs: one iteration of the loop over elf.libraries
libs_insert ==
    /\ pc = "libs_loop"
    /\ lib_i < Len(libraries)
    /\ dyn_libs' = HashMapInsert(dyn_libs, libraries[lib_i + 1])
    /\ lib_i' = lib_i + 1
    /\ UNCHANGED <<args, file, argv, pc, out, exit_code, start_enum,
                   is_caller_singular, section_hdr_table, header, printed, libraries>>

\* Arguments::print_dynamic_libs on the finished map, and what follows the call:
\* exit(0) in start_method_selector, the match on is_caller_singular in
\* parse_dynamic_syms
print_dynamic_libs ==
    /\ pc = "libs_loop"
    /\ lib_i = Len(libraries)
    /\ out' = Append(out, "* Dynamic Libraries found:")
    /\ printed' = printed @@ ("libs" :> DOMAIN dyn_libs)
    /\ dyn_libs' = HashMapNew
    /\ IF start_enum = "DynamicLibraries" \/ is_caller_singular = SINGULAR_CALLER
       THEN Exit(0)
       ELSE pc' = "summary" /\ UNCHANGED exit_code
    /\ UNCHANGED <<args, file, argv, start_enum, is_caller_singular,
                   section_hdr_table, header, libraries, lib_i>>

\* main, the Elf arm after the two reports: the endianness, the identity
\* (return_hdr_magic) and the header summary, then return Ok(())
summary ==
    /\ pc = "summary"
    /\ IF ~EndiannessOk(file)
       THEN Panic("Failed to obtain endianness of binary!")
            /\ UNCHANGED <<header, printed>>
       ELSE \E elf_ident \in IdentInputs(file), tm \in TypeMachineInputs :
               LET hdr_magic == return_hdr_magic(elf_ident)
                   e_type == tm[1]
                   elf_emachine == tm[2] IN
               /\ header' = header @@ ("e_ident" :> elf_ident) @@ ("e_type" :> e_type)
                                   @@ ("e_machine" :> elf_emachine)
               /\ IF hdr_magic.exits
                  THEN /\ out' = out \o <<"* Packing ELFMAG",
                                          "Error - vector (magic_vector) and vector (magic) don't match in length!">>
                       /\ Exit(ExitFailure)
                       /\ UNCHANGED printed
                  ELSE /\ printed' = printed @@ ("MAGIC" :> hdr_magic.elf_magic)
                                             @@ ("CLASS" :> ClassLabel(hdr_magic.elf_class))
                                             @@ ("DATA" :> DataLabel(hdr_magic.elf_data))
                                             @@ ("VERSION" :> hdr_magic.elf_version)
                                             @@ ("E_TYPE" :> return_elf_etype(e_type))
                                             @@ ("E_MACH" :> return_elf_emachine(elf_emachine))
                       /\ out' = out \o <<"* Packing ELFMAG", "FILE HEADER/MAGIC INFORMATION">>
                       /\ Exit(0)
    /\ UNCHANGED <<args, file, argv, start_enum, is_caller_singular,
                   section_hdr_table, libraries, lib_i, dyn_libs>>

Next ==
    \/ parse_args
    \/ read_file
    \/ select_mode
    \/ initialize_primary_object
    \/ object_parse
    \/ parse_header_sections
    \/ section_row
    \/ section_end
    \/ parse_dynamic_syms
    \/ parse_dynamic_libs
    \/ libs_insert
    \/ print_dynamic_libs
    \/ summary

Spec == Init /\ [][Next]_vars

-----------------------------------------------------------------------------
(* return_hdr_magic on its own: the function takes any [u8; 16], the run    *)
(* above gives it the identifications of parsed files only                   *)

\* the length of the parameter, magic: &[u8; 16]
EI_NIDENT == 16

\* byte values: the least and the greatest, the last one-digit and the first
\* two-digit values in hex, the valid class and data codes, the sign bit
ByteInputs == {0, 1, 2, 3, 9, 10, 15, 16, 127, 128, 255}

\* arrays to start from: an ELF identification, all zero, all 0xff, and one
\* whose 16 bytes differ from each other
IdentBases ==
    {<<127, 69, 76, 70, 2, 1, 1, 0, 0, 0, 0, 0, 0, 0, 0, 0>>,
     [k \in 1..EI_NIDENT |-> 0],
     [k \in 1..EI_NIDENT |-> 255],
     [k \in 1..EI_NIDENT |-> (k - 1) * 17]}

\* magic: a base array with one byte replaced
MagicInputs ==
    {[k \in 1..EI_NIDENT |-> IF k = p THEN b ELSE base[k]] :
        base \in IdentBases, p \in 1..EI_NIDENT, b \in ByteInputs}

IdentInit ==
    /\ args = <<"a.out">>
    /\ file = ElfFile(2, 1, TRUE)
    /\ argv = [file |-> "a.out", optional_param |-> ""]
    /\ pc = "return_hdr_magic"
    /\ out = <<>>
    /\ exit_code = 0
    /\ start_enum = "none"
    /\ is_caller_singular = MULTI_CALLER
    /\ section_hdr_table = <<>>
    /\ header \in {("e_ident" :> magic) : magic \in MagicInputs}
    /\ printed = <<>>
    /\ libraries = <<>>
    /\ lib_i = 0
    /\ dyn_libs = HashMapNew

\* the call of return_hdr_magic and the MAGIC, CLASS, DATA and VERSION lines
\* that main prints from what it returns
identity_decode ==
    /\ pc = "return_hdr_magic"
    /\ LET hdr_magic == return_hdr_magic(header["e_ident"]) IN
       IF hdr_magic.exits
       THEN /\ out' = out \o <<"* Packing ELFMAG",
                               "Error - vector (magic_vector) and vector (magic) don't match in length!">>
            /\ Exit(ExitFailure)
            /\ UNCHANGED printed
       ELSE /\ printed' = printed @@ ("MAGIC" :> hdr_magic.elf_magic)
                                  @@ ("CLASS" :> ClassLabel(hdr_magic.elf_class))
                                  @@ ("DATA" :> DataLabel(hdr_magic.elf_data))
                                  @@ ("VERSION" :> hdr_magic.elf_version)
            /\ out' = out \o <<"* Packing ELFMAG", "FILE HEADER/MAGIC INFORMATION">>
            /\ Exit(0)
    /\ UNCHANGED <<args, file, argv, start_enum, is_caller_singular,
                   section_hdr_table, header, libraries, lib_i, dyn_libs>>

IdentNext == identity_decode

IdentSpec == IdentInit /\ [][IdentNext]_vars

-----------------------------------------------------------------------------
(* What the claims speak of *)

Rows == {section_hdr_table[i] : i \in 1..Len(section_hdr_table)}

FlagLabels ==
    {"SHF_UNDEFINED", "SHF_WRITE", "SHF_ALLOC", "SHF_WRITE & SHF_ALLOC",
     "SHF_ASM_OPCODE", "SHF_EXECINSTR", "SHF_MERGE", "SHF_STRINGS",
     "SHF_INFO_LINK", "SHF_LINK_ORDER", "SHF_OS_NON_CONFORMING", "SHF_GROUP",
     "SHF_TLS", "SHF_MASKOS", "SHF_MASKPROC"}

\* the 64-bit values of sh_flags that have a label of their own
RecognizedFlags ==
    {{0, 1}, {1, 2}, {0}, {1}, {2}, {4}, {5}, {6}, {7}, {8}, {9}, {10},
     20..27, 28..31}

RecognizedSelectors == {"--sections", "--dyn-syms", "--dyn-libs"}

SelectorSupplied == Len(args) >= 2
UnknownSelector == SelectorSupplied /\ args[2] \notin RecognizedSelectors

\* the reports of a run, in the order it printed them
ReportLines ==
    {"section table", "dynamic symbols", "* Dynamic Libraries found:",
     "FILE HEADER/MAGIC INFORMATION"}
IsReportLine(line) == line \in ReportLines
Reports == SelectSeq(out, IsReportLine)

\* the first 4 bytes of a file that was read are not the ELF signature
BadSignature == file.readable /\ file.hint # "Elf"
\* the data-encoding byte of an ELF identification is no endianness
BadEndianness ==
    file.readable /\ file.long /\ file.hint = "Elf" /\ file.ei_data \notin {1, 2}

\* q * 1024 on limbs, for q below 2^54
Mul1024(q) ==
    << (q[1] % 64) * 1024,
       (q[1] \div 64) + (q[2] % 64) * 1024,
       (q[2] \div 64) + (q[3] % 64) * 1024,
       (q[3] \div 64) + q[4] * 1024 >>

\* q = floor(s / 1024): s = q * 1024 + r for a remainder r below 1024
IsFloorDiv1024(q, s) ==
    /\ q[4] < 64
    /\ \E r \in 0..1023 :
          LET m == Mul1024(q) IN s = <<m[1] + r, m[2], m[3], m[4]>>

Below1024(s) == \E n \in 0..1023 : s = U64Of(n)

ProcessedLibs == {libraries[j] : j \in 1..lib_i}

-----------------------------------------------------------------------------
(* The claims *)

\* C1: a section whose sh_flags is WRITE|ALLOC gets the one composite label
\* "SHF_WRITE & SHF_ALLOC", never SHF_WRITE or SHF_ALLOC; one whose sh_flags is
\* ALLOC|EXECINSTR gets "SHF_ASM_OPCODE", never SHF_ALLOC or SHF_EXECINSTR; every
\* row of the table carries exactly one label.
C1_CompositeLabels ==
    \A r \in Rows :
        /\ r.flags \in FlagLabels
        /\ r.sh_flags = {0, 1} =>
              r.flags = "SHF_WRITE & SHF_ALLOC" /\ r.flags \notin {"SHF_WRITE", "SHF_ALLOC"}
        /\ r.sh_flags = {1, 2} =>
              r.flags = "SHF_ASM_OPCODE" /\ r.flags \notin {"SHF_ALLOC", "SHF_EXECINSTR"}

C1_Witness ==
    /\ \E r \in Rows : r.sh_flags = {0, 1} /\ r.flags = "SHF_WRITE & SHF_ALLOC"
    /\ \E r \in Rows : r.sh_flags = {1, 2} /\ r.flags = "SHF_ASM_OPCODE"

\* C2: the object type printed in the summary is None, Relocatable, Executable,
\* Shared, Core for the codes 0..4, and for no other code what it is for code 0.
C2_ObjectTypeTable ==
    "E_TYPE" \in DOMAIN printed =>
        LET t == header["e_type"]
            label == printed["E_TYPE"] IN
        /\ t = 0 => label = "ET_NONE (No file type)"
        /\ t = 1 => label = "ET_REL (Relocatable file)"
        /\ t = 2 => label = "ET_EXEC (Executable file)"
        /\ t = 3 => label = "ET_DYN (Shared object file)"
        /\ t = 4 => label = "ET_CORE (Core file)"
        /\ t \notin 0..4 => label # "ET_NONE (No file type)"

\* C3: a run given a second argument that is none of the three selectors never
\* gets past the dispatch other than by ending with a non-zero exit code, having
\* printed no report; the run of all reports is entered only without a second
\* argument.
C3_UnknownSelectorFatal ==
    /\ UnknownSelector /\ pc \notin {"parse_args", "read", "select"} =>
          pc = "done" /\ exit_code # 0 /\ Reports = <<>>
    /\ pc = "object_parse" => ~SelectorSupplied

\* C4: a finished run's exit code is 0 when its report or its combined run
\* succeeded, and non-zero when the selector is unknown, the file cannot be
\* read, or the file fails the signature or the endianness check.
C4_ExitCodes ==
    pc = "done" /\ Len(args) >= 1 =>
        /\ (UnknownSelector \/ ~file.readable \/ BadSignature \/ BadEndianness) =>
              exit_code # 0
        /\ (Len(out) > 0 /\ out[Len(out)] \in
              {"section headers detected.", "* Dynamic Libraries found:",
               "FILE HEADER/MAGIC INFORMATION"}) => exit_code = 0

\* C5: for a file whose first 4 bytes are not the ELF signature, a run without a
\* selector or with a recognized one ends fatally, with no report printed.
C5_BadSignatureFatal ==
    pc = "done" /\ Len(args) >= 1 /\ ~UnknownSelector /\ BadSignature =>
        exit_code # 0 /\ Reports = <<>>

\* C6: once the section report has read e_shnum, it has printed e_shnum - 1 as
\* the section count, without aborting, for every e_shnum in 0..65535.
C6_SectionCount ==
    "e_shnum" \in DOMAIN header =>
        /\ "section_count" \in DOMAIN printed
        /\ printed["section_count"] = header["e_shnum"] - 1
        /\ exit_code # PanicExitCode

\* C7: a section whose 64-bit sh_flags is none of the recognized values is
\* labelled SHF_UNDEFINED.
C7_UndefinedFallback ==
    \A r \in Rows : r.sh_flags \notin RecognizedFlags => r.flags = "SHF_UNDEFINED"

\* C8: a finished run without a selector on a valid ELF object has printed the
\* section report, the dynamic symbols, the dynamic libraries and the summary,
\* each once and in that order.
C8_CombinedOrder ==
    pc = "done" /\ Len(args) = 1 /\ ObjectParse(file) = "Elf" /\ file.readable =>
        Reports = <<"section table", "dynamic symbols", "* Dynamic Libraries found:",
                    "FILE HEADER/MAGIC INFORMATION">>

\* C9: the Size cell always carries the byte count s, carries a kilobyte form
\* exactly when s >= 1024, and that form is floor(s / 1024).
C9_SizeForms ==
    \A r \in Rows :
        /\ r.size.bytes = r.sh_size
        /\ r.size.form = "Kb" <=> ~Below1024(r.sh_size)
        /\ r.size.form = "Kb" => IsFloorDiv1024(r.size.kb, r.sh_size)

\* C10: while parse_dynamic_libs runs, its map holds each distinct name handled
\* so far exactly once, its size is the number of those distinct names, and
\* inserting a name it holds leaves it unchanged; the printed list is the set of
\* the distinct names of the whole input.
C10_LibraryDedup ==
    /\ pc = "libs_loop" =>
          /\ DOMAIN dyn_libs = ProcessedLibs
          /\ HashMapLen(dyn_libs) = Cardinality(ProcessedLibs)
          /\ \A k \in DOMAIN dyn_libs : HashMapInsert(dyn_libs, k) = dyn_libs
    /\ "libs" \in DOMAIN printed =>
          Cardinality(printed["libs"]) =
              Cardinality({libraries[j] : j \in 1..Len(libraries)})

C10_Witness ==
    /\ pc = "libs_loop"
    /\ lib_i = 3
    /\ libraries = <<"libc.so.6", "libm.so.6", "libc.so.6">>
    /\ HashMapLen(dyn_libs) = 2

\* C11: the machine label of the summary is defined for every 16-bit code: the
\* none, MIPS and x86-64 codes have a label each, the two PowerPC codes share
\* one, and every other code is labelled "Unknown", with no code in the label;
\* the run that read e_machine printed the label and ended normally.
C11_MachineLabels ==
    "e_machine" \in DOMAIN header =>
        /\ "E_MACH" \in DOMAIN printed
        /\ pc = "done" /\ exit_code = 0
        /\ LET m == header["e_machine"]
               label == printed["E_MACH"] IN
           /\ m = 0 => label = "No machine"
           /\ m = 8 => label = "MIPS I Architecture"
           /\ m \in {20, 21} => label = "PowerPC 32/64 bit"
           /\ m = 62 => label = "Intel/AMD 64-bit"
           /\ m \notin {0, 8, 20, 21, 62} => label = "Unknown"

C11_Witness ==
    /\ "E_MACH" \in DOMAIN printed
    /\ header["e_machine"] = 65535
    /\ printed["E_MACH"] = "Unknown"

HexDigitOf ==
    [d \in 0..15 |->
        CASE d = 0 -> "0" [] d = 1 -> "1" [] d = 2 -> "2" [] d = 3 -> "3"
          [] d = 4 -> "4" [] d = 5 -> "5" [] d = 6 -> "6" [] d = 7 -> "7"
          [] d = 8 -> "8" [] d = 9 -> "9" [] d = 10 -> "a" [] d = 11 -> "b"
          [] d = 12 -> "c" [] d = 13 -> "d" [] d = 14 -> "e" [] d = 15 -> "f"]
IsHexPairOf(s, byte) ==
    \E hi, lo \in 0..15 :
        /\ hi * 16 + lo = byte
        /\ s = HexDigitOf[hi] \o HexDigitOf[lo]
\* a list of entries as one line, a space between neighbours
RECURSIVE Line(_, _)
Line(entries, n) ==
    IF n = 0 THEN "" ELSE
    IF n = 1 THEN entries[1] ELSE Line(entries, n - 1) \o " " \o entries[n]

\* C13: for every 16-byte array, return_hdr_magic returns (the exit(-1) of the
\* length test is never taken), its list has exactly 16 entries, entry k being
\* the two-digit hex of byte k of the array, the MAGIC line is that list in
\* order, and the class, data and version it returns are bytes 4, 5 and 6.
C13_IdentityDecodeTotal ==
    "e_ident" \in DOMAIN header =>
        LET magic == header["e_ident"]
            r == return_hdr_magic(magic) IN
        /\ ~r.exits
        /\ Len(r.magic_vector) = 16
        /\ \A k \in 1..16 : IsHexPairOf(r.magic_vector[k], magic[k])
        /\ r.elf_class = magic[5] /\ r.elf_data = magic[6] /\ r.elf_version = magic[7]
        /\ pc = "done" =>
              /\ exit_code = 0
              /\ printed["MAGIC"] = Line(r.magic_vector, 16)
              /\ Len(printed["MAGIC"]) = 47
              /\ printed["VERSION"] = magic[7]
              /\ printed["CLASS"] = ClassLabel(magic[5])
              /\ printed["DATA"] = DataLabel(magic[6])

C13_Witness ==
    /\ pc = "done"
    /\ "MAGIC" \in DOMAIN printed
    /\ header["e_ident"] = [k \in 1..16 |-> IF k = 6 THEN 255 ELSE (k - 1) * 17]
    /\ printed["MAGIC"] = "00 11 22 33 44 ff 66 77 88 99 aa bb cc dd ee ff"
    /\ printed["DATA"] = "UNKNOWN"

=============================================================================
